---- MODULE Spec2Model ----
(***************************************************************************)
(* Voice signalling server (src/api/index.ts): the room registry `rooms`   *)
(* and the Socket.IO handlers join:room, webrtc:offer, webrtc:answer,      *)
(* webrtc:ice-candidate, media:toggle and disconnect.                      *)
(*                                                                         *)
(* JavaScript objects are modelled as insertion-ordered maps: sequences of *)
(* [key, value] entries with unique keys.  Socket ids and room names are   *)
(* strings of one namespace, as they are for Socket.IO's rooms: every      *)
(* socket is a member of the Socket.IO room named by its own id.  Names    *)
(* are not integer-like, so key order is insertion order.                  *)
(***************************************************************************)
EXTENDS Integers, Sequences, FiniteSets, TLC

VARIABLES
    sockets,    \* ids of the connected sockets
    nextId,     \* number of connections accepted so far
    rooms,      \* the registry: ordered map roomId -> ordered map socketId -> userInfo
    adapter,    \* Socket.IO room membership: set of <<room, socketId>>
    sent,       \* the emit calls of the handler that ran last, in order
    last        \* the event that handler was run for

vars == <<sockets, nextId, rooms, adapter, sent, last>>

----------------------------------------------------------------------------
(* Bounds of the model *)

NumSockets == 2     \* connections accepted in Spec and SpecSignal
CapSockets == 11    \* connections accepted in SpecCapacity

(* Program constant: the capacity of a room *)
MaxMembers == 10

SocketId(i) == "s" \o ToString(i)

SocketIds == {SocketId(i) : i \in 1..NumSockets}

CapSocketIds == {SocketId(i) : i \in 1..CapSockets}

\* Room names a client may send: a plain name and the id of the first socket.
RoomIds == {"r1", SocketId(1)}

\* userInfo values: "" is falsy in JavaScript (as are undefined, null, 0, false).
UserInfos == {"", "ana"}

\* Targets a client may name in a relay: any socket id or room name.
Targets == SocketIds \cup RoomIds

\* `from` values a client may put in a relay payload.
Froms == {SocketId(1), SocketId(2)}

MediaTypes == {"audio"}

RelayEvents == {"webrtc:offer", "webrtc:answer", "webrtc:ice-candidate"}

\* Inputs of SpecSignal and SpecCapacity
SignalUserInfos == {"ana"}
CapRoomIds == {"r2"}
CapUserInfos == {"ana"}

----------------------------------------------------------------------------
(* JavaScript objects as insertion-ordered maps *)

ObjKeys(obj) == [i \in 1..Len(obj) |-> obj[i].key]

ObjHas(obj, k) == \E i \in 1..Len(obj) : obj[i].key = k

ObjIndex(obj, k) == CHOOSE i \in 1..Len(obj) : obj[i].key = k

ObjGet(obj, k) == obj[ObjIndex(obj, k)].value

\* obj[k] = v: an existing key keeps its position, a new key goes last.
ObjSet(obj, k, v) ==
    IF ObjHas(obj, k)
    THEN [obj EXCEPT ![ObjIndex(obj, k)] = [key |-> k, value |-> v]]
    ELSE Append(obj, [key |-> k, value |-> v])

\* delete obj[k]
ObjDelete(obj, k) == SelectSeq(obj, LAMBDA e : e.key # k)

\* if (x): JavaScript truthiness of a userInfo value, absent keys being undefined
Truthy(obj, k) == ObjHas(obj, k) /\ ObjGet(obj, k) # ""

----------------------------------------------------------------------------
(* Socket.IO *)

\* the sockets in Socket.IO room `room`
InRoom(adp, room) == {p[2] : p \in {q \in adp : q[1] = room}}

\* one emit call: the sockets it is delivered to, the event name and its argument
Emit(to, event, data) == [to |-> to, event |-> event, data |-> data]

\* socket.emit(event, data)
SocketEmit(socket, event, data) == Emit({socket}, event, data)

\* socket.to(room).emit(event, data): everyone in the room but the sender
SocketToEmit(adp, socket, room, event, data) ==
    Emit(InRoom(adp, room) \ {socket}, event, data)

\* io.to(room).emit(event, data): everyone in the room
IoToEmit(adp, room, event, data) == Emit(InRoom(adp, room), event, data)

----------------------------------------------------------------------------
Init ==
    /\ sockets = {}
    /\ nextId = 0
    /\ rooms = <<>>
    /\ adapter = {}
    /\ sent = <<>>
    /\ last = [event |-> "none"]

\* io.on('connection'): a new socket, placed in the room named by its id
Connection(limit) ==
    /\ nextId < limit
    /\ LET id == SocketId(nextId + 1) IN
        /\ sockets' = sockets \cup {id}
        /\ adapter' = adapter \cup {<<id, id>>}
        /\ last' = [event |-> "connection", socket |-> id]
    /\ nextId' = nextId + 1
    /\ sent' = <<>>
    /\ UNCHANGED rooms

CurrentCount(rms, roomId) ==
    IF ObjHas(rms, roomId) THEN Len(ObjKeys(ObjGet(rms, roomId))) ELSE 0

\* Faulty variant: the capacity test off by one
RoomIsFullOffByOne(currentCount) == currentCount > MaxMembers

\* if (currentCount >= 10)
RoomIsFull(currentCount) == currentCount >= MaxMembers

\* Faulty variant: the joining socket is not filtered out of the list
ExistingUsersUnfiltered(rms, roomId, socket) ==
    LET members == ObjGet(rms, roomId)
    IN [i \in 1..Len(members) |->
            [socketId |-> members[i].key, userInfo |-> members[i].value]]

\* the list sent with existing:users
ExistingUsers(rms, roomId, socket) ==
    LET members == ObjGet(rms, roomId)
        ids == SelectSeq(ObjKeys(members), LAMBDA id : id # socket)
    IN [i \in 1..Len(ids) |->
            [socketId |-> ids[i], userInfo |-> ObjGet(members, ids[i])]]

\* Faulty variant: socket.join(roomId) runs before the capacity test
JoinRejectedAfterJoin(socket, roomId) ==
    /\ sent' = <<SocketEmit(socket, "room:full", <<>>)>>
    /\ adapter' = adapter \cup {<<roomId, socket>>}
    /\ UNCHANGED rooms

\* join:room, capacity reached
JoinRejected(socket, roomId) ==
    /\ sent' = <<SocketEmit(socket, "room:full", <<>>)>>
    /\ UNCHANGED <<rooms, adapter>>

\* rooms[roomId][socket.id] = userInfo, creating the room when absent
AddMember(rms, roomId, socket, userInfo) ==
    LET rooms1 == IF ~ObjHas(rms, roomId) THEN ObjSet(rms, roomId, <<>>) ELSE rms
    IN ObjSet(rooms1, roomId, ObjSet(ObjGet(rooms1, roomId), socket, userInfo))

\* join:room, capacity not reached
JoinAccepted(socket, roomId, userInfo) ==
    /\ adapter' = adapter \cup {<<roomId, socket>>}
    /\ rooms' = AddMember(rooms, roomId, socket, userInfo)
    /\ sent' = << SocketToEmit(adapter', socket, roomId, "user:joined",
                               [socketId |-> socket, userInfo |-> userInfo]),
                  SocketEmit(socket, "existing:users",
                             ExistingUsers(rooms', roomId, socket)) >>

\* socket.on('join:room', (roomId, userInfo) => ...)
JoinRoom(socket, roomId, userInfo) ==
    /\ socket \in sockets
    /\ IF RoomIsFull(CurrentCount(rooms, roomId))
       THEN JoinRejected(socket, roomId)
       ELSE JoinAccepted(socket, roomId, userInfo)
    /\ last' = [event |-> "join:room", socket |-> socket,
                roomId |-> roomId, userInfo |-> userInfo]
    /\ UNCHANGED <<sockets, nextId>>

\* io.to(to).emit(event, { from, <field> })
Relay(socket, event, to, from, payload) ==
    /\ socket \in sockets
    /\ sent' = <<IoToEmit(adapter, to, event, [from |-> from, payload |-> payload])>>
    /\ last' = [event |-> event, socket |-> socket, to |-> to,
                from |-> from, payload |-> payload]
    /\ UNCHANGED <<sockets, nextId, rooms, adapter>>

\* socket.on('webrtc:offer', ({ to, offer, from }) => ...)
WebrtcOffer(socket, to, offer, from) == Relay(socket, "webrtc:offer", to, from, offer)

\* socket.on('webrtc:answer', ({ to, answer, from }) => ...)
WebrtcAnswer(socket, to, answer, from) == Relay(socket, "webrtc:answer", to, from, answer)

\* socket.on('webrtc:ice-candidate', ({ to, candidate, from }) => ...)
WebrtcIceCandidate(socket, to, candidate, from) ==
    Relay(socket, "webrtc:ice-candidate", to, from, candidate)

\* Faulty variant: the toggle is also recorded in the registry
MediaToggleRecorded(socket, roomId, type, enabled) ==
    /\ socket \in sockets
    /\ sent' = <<SocketToEmit(adapter, socket, roomId, "peer:media-toggle",
                    [socketId |-> socket, type |-> type, enabled |-> enabled])>>
    /\ rooms' = AddMember(rooms, roomId, socket, type)
    /\ last' = [event |-> "media:toggle", socket |-> socket, roomId |-> roomId,
                type |-> type, enabled |-> enabled]
    /\ UNCHANGED <<sockets, nextId, adapter>>

\* socket.on('media:toggle', ({ roomId, type, enabled }) => ...)
MediaToggle(socket, roomId, type, enabled) ==
    /\ socket \in sockets
    /\ sent' = <<SocketToEmit(adapter, socket, roomId, "peer:media-toggle",
                    [socketId |-> socket, type |-> type, enabled |-> enabled])>>
    /\ last' = [event |-> "media:toggle", socket |-> socket, roomId |-> roomId,
                type |-> type, enabled |-> enabled]
    /\ UNCHANGED <<sockets, nextId, rooms, adapter>>

\* for (const roomId in rooms) if (rooms[roomId][socket.id]) ... break:
\* the position of the first room holding a truthy entry of the socket, 0 if none
FirstRoomOf(rms, socket) ==
    LET hits == {i \in 1..Len(rms) : Truthy(rms[i].value, socket)}
    IN IF hits = {} THEN 0 ELSE CHOOSE i \in hits : \A j \in hits : i <= j

\* Faulty variant: an emptied room is kept
DeleteIfEmptyNever(rms, roomId) == rms

\* if (Object.keys(rooms[roomId]).length === 0) delete rooms[roomId]
DeleteIfEmpty(rms, roomId) ==
    IF Len(ObjKeys(ObjGet(rms, roomId))) = 0 THEN ObjDelete(rms, roomId) ELSE rms

\* delete rooms[roomId][socket.id], then delete the room if it is empty
RemoveMember(rms, roomId, socket) ==
    DeleteIfEmpty(ObjSet(rms, roomId, ObjDelete(ObjGet(rms, roomId), socket)), roomId)

\* the body of the disconnect handler: the scan of the registry, the removal
\* and the user:left broadcast
OnDisconnect(socket) ==
    LET i == FirstRoomOf(rooms, socket) IN
        IF i = 0
        THEN /\ sent' = <<>>
             /\ UNCHANGED rooms
        ELSE LET roomId == rooms[i].key
                 userInfo == ObjGet(rooms[i].value, socket)
             IN /\ rooms' = RemoveMember(rooms, roomId, socket)
                /\ sent' = <<SocketToEmit(adapter', socket, roomId, "user:left",
                                [socketId |-> socket, userInfo |-> userInfo])>>

\* socket.on('disconnect', () => ...): Socket.IO has taken the socket out of all
\* its rooms before the handler runs
Disconnect(socket) ==
    /\ socket \in sockets
    /\ sockets' = sockets \ {socket}
    /\ adapter' = {p \in adapter : p[2] # socket}
    /\ OnDisconnect(socket)
    /\ last' = [event |-> "disconnect", socket |-> socket]
    /\ UNCHANGED nextId

\* the closure of a socket that is already closed is reported once more and the
\* disconnect handler runs again for it
DisconnectAgain(socket) ==
    /\ socket \in {SocketId(i) : i \in 1..nextId} \ sockets
    /\ UNCHANGED <<sockets, adapter>>
    /\ OnDisconnect(socket)
    /\ last' = [event |-> "disconnect", socket |-> socket, repeated |-> TRUE]
    /\ UNCHANGED nextId

----------------------------------------------------------------------------
(* Specifications.  The relay and media:toggle handlers leave sockets,     *)
(* rooms and adapter unchanged, so the registry's life cycle is explored   *)
(* in Spec without them and the signalling handlers in SpecSignal; the     *)
(* capacity of a room is explored in SpecCapacity, where connections       *)
(* arrive one at a time: a socket connects once no connected socket is     *)
(* left outside every room.                                                *)

\* connected sockets that appear in no room of the registry
Idle == {s \in sockets : \A i \in 1..Len(rooms) : ~ObjHas(rooms[i].value, s)}

Next ==
    \/ Connection(NumSockets)
    \/ \E socket \in SocketIds, roomId \in RoomIds, userInfo \in UserInfos :
           JoinRoom(socket, roomId, userInfo)
    \/ \E socket \in SocketIds : Disconnect(socket)

Spec == Init /\ [][Next]_vars

NextSignal ==
    \/ Connection(NumSockets)
    \/ \E socket \in SocketIds, roomId \in RoomIds, userInfo \in SignalUserInfos :
           JoinRoom(socket, roomId, userInfo)
    \/ \E socket \in SocketIds, to \in Targets, from \in Froms :
           WebrtcOffer(socket, to, "sdp", from)
    \/ \E socket \in SocketIds, to \in Targets, from \in Froms :
           WebrtcAnswer(socket, to, "sdp", from)
    \/ \E socket \in SocketIds, to \in Targets, from \in Froms :
           WebrtcIceCandidate(socket, to, "ice", from)
    \/ \E socket \in SocketIds, roomId \in RoomIds, type \in MediaTypes,
          enabled \in BOOLEAN :
           MediaToggle(socket, roomId, type, enabled)
    \/ \E socket \in SocketIds : Disconnect(socket)

SpecSignal == Init /\ [][NextSignal]_vars

NextCapacity ==
    \/ (Idle = {} /\ Connection(CapSockets))
    \/ \E socket \in CapSocketIds, roomId \in CapRoomIds, userInfo \in CapUserInfos :
           JoinRoom(socket, roomId, userInfo)
    \/ \E socket \in CapSocketIds : Disconnect(socket)

SpecCapacity == Init /\ [][NextCapacity]_vars

\* SpecCapacity with a first socket that may join with a falsy userInfo
CapInfosOf(socket) == IF socket = SocketId(1) THEN UserInfos ELSE CapUserInfos

NextCapacityStale ==
    \/ (Idle = {} /\ Connection(CapSockets))
    \/ \E socket \in CapSocketIds, roomId \in CapRoomIds :
           \E userInfo \in CapInfosOf(socket) : JoinRoom(socket, roomId, userInfo)
    \/ \E socket \in CapSocketIds : Disconnect(socket)

SpecCapacityStale == Init /\ [][NextCapacityStale]_vars

\* Spec with closures that are reported more than once
NextRepeat ==
    \/ Connection(NumSockets)
    \/ \E socket \in SocketIds, roomId \in RoomIds, userInfo \in UserInfos :
           JoinRoom(socket, roomId, userInfo)
    \/ \E socket \in SocketIds : Disconnect(socket)
    \/ \E socket \in SocketIds : DisconnectAgain(socket)

SpecRepeat == Init /\ [][NextRepeat]_vars

----------------------------------------------------------------------------
(* Vocabulary of the claims *)

\* the member map of a room, empty when the registry has no such room
MembersOf(rms, roomId) == IF ObjHas(rms, roomId) THEN ObjGet(rms, roomId) ELSE <<>>

\* the socket ids that are keys of a member map
MemberIds(members) == {members[i].key : i \in 1..Len(members)}

\* the emit calls, among snt, that are delivered to socket t
Deliveries(snt, t) == SelectSeq(snt, LAMBDA e : t \in e.to)

\* every socket some emit call of snt is delivered to
Recipients(snt) == UNION {snt[k].to : k \in 1..Len(snt)}

\* the last handler was join:room and it took the accepting branch
JoinSucceeded ==
    /\ last.event = "join:room"
    /\ Len(sent) = 2
    /\ sent[1].event = "user:joined"

\* the last handler was join:room and it took the rejecting branch
JoinWasRejected ==
    /\ last.event = "join:room"
    /\ Len(sent) = 1
    /\ sent[1].event = "room:full"

\* a member map with the entry of socket c taken out, as existing:users lists it
SnapshotWithout(members, c) ==
    LET k == CHOOSE i \in 1..Len(members) : members[i].key = c
    IN [i \in 1..(Len(members) - 1) |->
            LET e == IF i < k THEN members[i] ELSE members[i + 1]
            IN [socketId |-> e.key, userInfo |-> e.value]]

----------------------------------------------------------------------------
(* C1: in every reachable state every room of the registry has at most 10  *)
(* member entries, whatever joins and disconnects were handled.            *)
C1_RoomNeverExceedsTen ==
    \A i \in 1..Len(rooms) : Len(rooms[i].value) <= 10

\* a room holds 10 members and an eleventh socket has just been turned away
C1_Witness ==
    /\ JoinWasRejected
    /\ Len(MembersOf(rooms, last.roomId)) = 10
    /\ Cardinality(sockets) = 11

(* C2: a join:room for a room that already has 10 members sends room:full  *)
(* to the joining socket and to no one else, emits nothing else, and       *)
(* leaves the registry and the Socket.IO rooms as they were.               *)
C2_FullRoomRejects ==
    [][ (last'.event = "join:room" /\ CurrentCount(rooms, last'.roomId) >= 10)
        => /\ rooms' = rooms
           /\ adapter' = adapter
           /\ Len(sent') = 1
           /\ sent'[1].event = "room:full"
           /\ sent'[1].to = {last'.socket} ]_vars

\* a socket outside the full room was rejected and is in no room, registry or Socket.IO
C2_Witness ==
    /\ JoinWasRejected
    /\ CurrentCount(rooms, last.roomId) = 10
    /\ last.socket \in Idle
    /\ <<last.roomId, last.socket>> \notin adapter
    /\ Recipients(sent) = {last.socket}

(* C3: after a successful join:room(room, info) by socket c, the room's    *)
(* member map holds c exactly once, with info, and the existing:users list *)
(* sent to c is the room's member list with c's entry removed.             *)
C3_JoinRecordsAndSnapshots ==
    JoinSucceeded =>
        LET c == last.socket
            members == MembersOf(rooms, last.roomId)
        IN /\ Cardinality({i \in 1..Len(members) : members[i].key = c}) = 1
           /\ \A i \in 1..Len(members) :
                 members[i].key = c => members[i].value = last.userInfo
           /\ sent[2].event = "existing:users"
           /\ sent[2].to = {c}
           /\ sent[2].data = SnapshotWithout(members, c)

\* a socket joined a room that another socket was already in
C3_Witness ==
    /\ JoinSucceeded
    /\ Len(MembersOf(rooms, last.roomId)) = 2
    /\ Len(sent[2].data) = 1
    /\ sent[2].data[1].socketId # last.socket

(* C4: on a successful join:room by c, the sockets that receive            *)
(* user:joined are exactly the sockets listed in the existing:users list   *)
(* c receives, and c is not among them.                                    *)
C4_NotifiedEqualsSnapshot ==
    JoinSucceeded =>
        /\ sent[1].to = {sent[2].data[i].socketId : i \in 1..Len(sent[2].data)}
        /\ last.socket \notin sent[1].to

(* C5: every member entry of the registry belongs to a connected socket:   *)
(* a socket whose disconnect has been handled is in no room.               *)
C5_MembersAreLive ==
    \A i \in 1..Len(rooms) : MemberIds(rooms[i].value) \subseteq sockets

(* C6: each socket is a member of at most one room of the registry.        *)
C6_AtMostOneRoom ==
    \A s \in SocketIds :
        Cardinality({i \in 1..Len(rooms) : ObjHas(rooms[i].value, s)}) <= 1

(* C7: when socket c, a member of room r with info i, disconnects, every   *)
(* socket remaining in r receives exactly one user:left carrying c and i,  *)
(* c receives nothing, and r's members are the previous ones minus c.      *)
C7_DisconnectNotifiesRoom ==
    [][ \A n \in 1..Len(rooms) :
          (last'.event = "disconnect" /\ ObjHas(rooms[n].value, last'.socket))
          => LET c == last'.socket
                 r == rooms[n].key
                 members == rooms[n].value
                 i == ObjGet(members, c)
             IN /\ \A t \in MemberIds(members) \ {c} :
                      /\ Len(Deliveries(sent', t)) = 1
                      /\ Deliveries(sent', t)[1].event = "user:left"
                      /\ Deliveries(sent', t)[1].data = [socketId |-> c, userInfo |-> i]
                /\ Deliveries(sent', c) = <<>>
                /\ MembersOf(rooms', r) = ObjDelete(members, c) ]_vars

(* C8: no room of the registry has an empty member map: a room is in the   *)
(* registry exactly while it has a member entry.                           *)
C8_NoEmptyRoom ==
    \A i \in 1..Len(rooms) : Len(rooms[i].value) >= 1

\* a disconnect took the last member out and the registry is empty again
C8_Witness ==
    /\ last.event = "disconnect"
    /\ Len(sent) = 1
    /\ sent[1].event = "user:left"
    /\ rooms = <<>>

(* C9: a relay event sent by socket s with `to` naming a connected socket  *)
(* t is received by t exactly once, as the same event, with the payload    *)
(* unchanged and `from` equal to s's own socket id.                        *)
C9_RelayTaggedWithSender ==
    (last.event \in RelayEvents /\ last.to \in sockets)
    => LET got == Deliveries(sent, last.to)
       IN /\ Len(got) = 1
          /\ got[1].event = last.event
          /\ got[1].data.payload = last.payload
          /\ got[1].data.from = last.socket

(* C10: a relay event whose `to` names no connected socket is delivered to *)
(* no socket and leaves the registry unchanged.                            *)
C10_UnknownTargetDropped ==
    [][ (last'.event \in RelayEvents /\ last'.to \notin sockets)
        => /\ Recipients(sent') = {}
           /\ rooms' = rooms ]_vars

\* socket c is an entry of no room of the registry
InNoRoom(rms, c) == \A i \in 1..Len(rms) : ~ObjHas(rms[i].value, c)

\* the positions of the rooms of the registry that hold an entry of socket c
RoomsOf(rms, c) == {i \in 1..Len(rms) : ObjHas(rms[i].value, c)}

(* C11: when a member of room r sends media:toggle(r, type, enabled),      *)
(* every other registry member of r receives exactly one peer:media-toggle *)
(* carrying the sender's id, type and enabled; the sender receives none.   *)
C11_ToggleReachesMembers ==
    (last.event = "media:toggle"
        /\ ObjHas(MembersOf(rooms, last.roomId), last.socket))
    => /\ \A t \in MemberIds(MembersOf(rooms, last.roomId)) \ {last.socket} :
             /\ Len(Deliveries(sent, t)) = 1
             /\ Deliveries(sent, t)[1].event = "peer:media-toggle"
             /\ Deliveries(sent, t)[1].data =
                    [socketId |-> last.socket, type |-> last.type,
                     enabled |-> last.enabled]
       /\ Deliveries(sent, last.socket) = <<>>

C13_CapacityCountsLive ==
    [][ last'.event = "join:room"
        => LET live == Cardinality(
                         MemberIds(MembersOf(rooms, last'.roomId)) \cap sockets)
               rejected == sent'[1].event = "room:full"
           IN /\ live < 10 => ~rejected
              /\ rejected => live = 10 ]_vars

(* C14: a media:toggle sent by a socket that is a member of no room is     *)
(* delivered to no socket and leaves the registry unchanged.               *)
C14_ToggleOfNonMemberDropped ==
    [][ (last'.event = "media:toggle" /\ InNoRoom(rooms, last'.socket))
        => /\ Recipients(sent') = {}
           /\ rooms' = rooms ]_vars

(* C15: handling a relay event or a media:toggle leaves the registry, its  *)
(* rooms, their members and their info, unchanged.                         *)
C15_SignalsKeepRegistry ==
    [][ last'.event \in RelayEvents \cup {"media:toggle"} => rooms' = rooms ]_vars

\* a toggle was delivered to a member of a room of the registry
C15_Witness ==
    /\ last.event = "media:toggle"
    /\ ObjHas(MembersOf(rooms, last.roomId), last.socket)
    /\ Recipients(sent) # {}
    /\ Recipients(sent) \subseteq MemberIds(MembersOf(rooms, last.roomId))

(* C16: a member of r1 that joins another room r2 is added to r2, keeps    *)
(* its entry in r1 and causes no user:left; when it later disconnects it   *)
(* is removed from exactly one of the two rooms, the first one in the      *)
(* registry's order, and keeps its entry in the other.                     *)
C16_SecondJoinKeepsFirst ==
    [][ /\ (last'.event = "join:room" /\ sent'[1].event # "room:full")
           => \A n \in RoomsOf(rooms, last'.socket) :
                 rooms[n].key # last'.roomId
                 => /\ ObjHas(MembersOf(rooms', last'.roomId), last'.socket)
                    /\ MembersOf(rooms', rooms[n].key) = rooms[n].value
                    /\ \A k \in 1..Len(sent') : sent'[k].event # "user:left"
        /\ (last'.event = "disconnect"
                /\ Cardinality(RoomsOf(rooms, last'.socket)) = 2)
           => LET c == last'.socket
                  first == CHOOSE n \in RoomsOf(rooms, c) :
                               \A m \in RoomsOf(rooms, c) : n <= m
                  other == CHOOSE n \in RoomsOf(rooms, c) : n # first
              IN /\ ~ObjHas(MembersOf(rooms', rooms[first].key), c)
                 /\ MembersOf(rooms', rooms[other].key) = rooms[other].value ]_vars

(* C17: no socket is told twice that c joined a room without a user:left   *)
(* about c in between; in particular not by two join:room events of c for  *)
(* the same room handled one after the other.                              *)
C17_NoRepeatedUserJoined ==
    [][ ~ ( /\ last.event = "join:room"
            /\ last'.event = "join:room"
            /\ last'.socket = last.socket
            /\ last'.roomId = last.roomId
            /\ Len(sent) = 2
            /\ Len(sent') = 2
            /\ sent[1].to \cap sent'[1].to # {} ) ]_vars

(* C18: once every socket that connected has disconnected and its          *)
(* disconnect has been handled, the registry is empty.                     *)
C18_EmptyWhenAllGone ==
    (nextId > 0 /\ sockets = {}) => rooms = <<>>

(* C19: a relay event is delivered to no socket other than the one whose   *)
(* id equals `to`, whatever `to` is.                                       *)
C19_RelayPointToPoint ==
    last.event \in RelayEvents => Recipients(sent) \subseteq {last.to}

(* C20: for every room r of the registry and every connected socket c, c   *)
(* is in the Socket.IO room r exactly when c is a registry member of r.    *)
C20_AdapterMatchesRegistry ==
    \A i \in 1..Len(rooms) : \A c \in sockets :
        <<rooms[i].key, c>> \in adapter <=> ObjHas(rooms[i].value, c)

====
